---- MODULE Spec2Model ----
(***************************************************************************)
(* A model of the type-reference search programs of this repository:       *)
(*   poogle.py       type_matches, extract_annotations, search_file        *)
(*   poogle2.py      TypeFinder, dora, resolve_import                      *)
(*   poogle3.py      TypeVisitor, ImportTracker, TypeAnalyzer              *)
(*   second_dora.py  extract_imports, extract_annotations_and_exprs,       *)
(*                   search_file, main                                     *)
(* Python strings are TLA+ strings; a syntax tree is a record with a field *)
(* k naming the node class.  A file system maps a path to the name of a    *)
(* source text; Source gives the text's lines and its parse.               *)
(***************************************************************************)
EXTENDS Naturals, Integers, Sequences, FiniteSets, TLC

\* ------------------------------------------------------------------ bounds
\* Number of paths of the directory that may hold a file.
MaxFiles == 2

\* The depth of calls the interpreter allows (sys.getrecursionlimit(), scaled
\* down): a call made at this depth raises RecursionError.
RecursionLimit == 5

\* The annotation trees given to type_matches have at most this many nodes.
MaxNodes == 3

\* ------------------------------------------------------------ Python values
\* Python's None, where the code tests `x is None` or `if x`.
PyNone == "<None>"

\* An absent optional child node (annotation, returns, value).
NoNode == [k |-> "NoNode"]

\* The concatenation of a sequence of sequences.  (The recursive definitions
\* of this module are functions over Any, so that an argument is evaluated
\* once, where it is passed.)
FlattenF[ss \in Any] == IF ss = <<>> THEN <<>> ELSE Head(ss) \o FlattenF[Tail(ss)]

\* The concatenation of a sequence of sequences.
Flatten(ss) == FlattenF[ss]

\* dict[key] = value on a dict held as a function.
DictSet(d, key, value) ==
  [x \in DOMAIN d \cup {key} |-> IF x = key THEN value ELSE d[x]]

\* The empty dict.
EmptyDict == [x \in {} |-> ""]

\* ------------------------------------------------------------------ strings
\* Python `pat in s` on strings.
StrContains(pat, s) ==
  \E i \in 1..(Len(s) + 1) : \E j \in (i - 1)..Len(s) : SubSeq(s, i, j) = pat

\* Index of the last occurrence of the one-character string ch in s, 0 if none.
LastIndexOf(s, ch) ==
  LET hits == {i \in 1..Len(s) : SubSeq(s, i, i) = ch}
  IN IF hits = {} THEN 0 ELSE CHOOSE i \in hits : \A j \in hits : j <= i

\* Index of the first occurrence of ch in s, 0 if none.
FirstIndexOf(s, ch) ==
  LET hits == {i \in 1..Len(s) : SubSeq(s, i, i) = ch}
  IN IF hits = {} THEN 0 ELSE CHOOSE i \in hits : \A j \in hits : i <= j

\* Python s.split(ch) for a = <<s, ch>>.
StrSplitF[a \in Any] ==
  LET i == FirstIndexOf(a[1], a[2])
  IN IF i = 0 THEN <<a[1]>>
     ELSE <<SubSeq(a[1], 1, i - 1)>> \o StrSplitF[<<SubSeq(a[1], i + 1, Len(a[1])), a[2]>>]

\* Python s.split(ch).
StrSplit(s, ch) == StrSplitF[<<s, ch>>]

\* Python s.replace(ch, by) for a one-character ch and a = <<s, ch, by>>.
StrReplaceF[a \in Any] ==
  LET i == FirstIndexOf(a[1], a[2])
  IN IF i = 0 THEN a[1]
     ELSE SubSeq(a[1], 1, i - 1) \o a[3]
            \o StrReplaceF[<<SubSeq(a[1], i + 1, Len(a[1])), a[2], a[3]>>]

\* Python s.replace(ch, by) for a one-character ch.
StrReplace(s, ch, by) == StrReplaceF[<<s, ch, by>>]

\* Python s.lstrip() for blanks.
LStrip[s \in Any] ==
  IF Len(s) > 0 /\ SubSeq(s, 1, 1) = " " THEN LStrip[SubSeq(s, 2, Len(s))] ELSE s

\* Python s.rstrip() for blanks.
RStrip[s \in Any] ==
  IF Len(s) > 0 /\ SubSeq(s, Len(s), Len(s)) = " " THEN RStrip[SubSeq(s, 1, Len(s) - 1)] ELSE s

\* Python s.strip().
Strip(s) == LStrip[RStrip[s]]

\* -------------------------------------------------------------------- paths
\* os.sep
Sep == "/"

\* os.path.dirname(p)
Dirname(p) == LET i == LastIndexOf(p, Sep) IN IF i = 0 THEN "" ELSE SubSeq(p, 1, i - 1)

\* os.path.join(d, p) for a relative p.
PathJoin(d, p) == IF d = "" THEN p ELSE d \o Sep \o p

\* os.getcwd(): the directory the program is run in.
Cwd == "/w"

\* os.path.abspath(p)
abspath(p) == IF Len(p) > 0 /\ SubSeq(p, 1, 1) = Sep THEN p ELSE Cwd \o Sep \o p

\* os.path.basename(p)
Basename(p) == SubSeq(p, LastIndexOf(p, Sep) + 1, Len(p))

\* Python s.endswith(suffix)
EndsWith(s, suffix) ==
  Len(s) >= Len(suffix) /\ SubSeq(s, Len(s) - Len(suffix) + 1, Len(s)) = suffix

\* The path as the directory knows it: relative to the working directory.
FsKey(path) ==
  LET prefix == Cwd \o Sep
  IN IF Len(path) > Len(prefix) /\ SubSeq(path, 1, Len(prefix)) = prefix
     THEN SubSeq(path, Len(prefix) + 1, Len(path))
     ELSE path

\* str(Path(p).parent), which is "." for a bare file name.
PathParent(p) == LET d == Dirname(p) IN IF d = "" THEN "." ELSE d

\* str(Path(d) / part): pathlib drops a leading "." component.
PathDiv(d, part) == IF d = "." THEN part ELSE d \o Sep \o part

\* ------------------------------------------------------------- syntax trees
\* ast.Name
Name(id, line, col) == [k |-> "Name", id |-> id, lineno |-> line, col_offset |-> col]

\* ast.Attribute
Attribute(value, attr, line, col) ==
  [k |-> "Attribute", value |-> value, attr |-> attr, lineno |-> line, col_offset |-> col]

\* ast.Subscript (Python 3.9+: slice is the expression itself)
Subscript(value, slice, line, col) ==
  [k |-> "Subscript", value |-> value, slice |-> slice, lineno |-> line, col_offset |-> col]

\* ast.Tuple
TupleN(elts, line, col) == [k |-> "Tuple", elts |-> elts, lineno |-> line, col_offset |-> col]

\* ast.List
ListN(elts, line, col) == [k |-> "List", elts |-> elts, lineno |-> line, col_offset |-> col]

\* ast.BinOp; op is the operator's class name ("BitOr", "Add").
BinOp(left, op, right, line, col) ==
  [k |-> "BinOp", left |-> left, op |-> op, right |-> right, lineno |-> line,
   col_offset |-> col]

\* ast.Call (positional arguments)
Call(func, args, line, col) ==
  [k |-> "Call", func |-> func, args |-> args, lineno |-> line, col_offset |-> col]

\* ast.Constant: value is str(value), vtype is type(value).__name__.
Constant(value, vtype, line, col) ==
  [k |-> "Constant", value |-> value, vtype |-> vtype, lineno |-> line, col_offset |-> col]

\* ast.Lambda, standing for the expression classes no visitor names.
Lambda(line, col) == [k |-> "Lambda", lineno |-> line, col_offset |-> col]

\* ast.Import with one alias.
Import(name, asname, line) ==
  [k |-> "Import", name |-> name, asname |-> asname, lineno |-> line, col_offset |-> 0]

\* ast.ImportFrom with one alias; module is PyNone for `from . import x`.
ImportFrom(module, name, asname, line) ==
  [k |-> "ImportFrom", module |-> module, name |-> name, asname |-> asname,
   lineno |-> line, col_offset |-> 0]

\* ast.arg: a parameter, its annotation (or NoNode) and its column.
Arg(annotation, col) == [k |-> "arg", annotation |-> annotation, col_offset |-> col]

\* ast.FunctionDef
FunctionDef(args, body, returns, line, col) ==
  [k |-> "FunctionDef", args |-> args, body |-> body, returns |-> returns,
   lineno |-> line, col_offset |-> col]

\* ast.AnnAssign
AnnAssign(target, annotation, value, line, col) ==
  [k |-> "AnnAssign", target |-> target, annotation |-> annotation, value |-> value,
   lineno |-> line, col_offset |-> col]

\* ast.Assign (no type comment: ast.parse is called without type_comments)
Assign(targets, value, line, col) ==
  [k |-> "Assign", targets |-> targets, value |-> value, lineno |-> line,
   col_offset |-> col]

\* ast.ClassDef
ClassDef(name, bases, body, line, col) ==
  [k |-> "ClassDef", name |-> name, bases |-> bases, body |-> body, lineno |-> line,
   col_offset |-> col]

\* ast.Expr
Expr(value, line, col) == [k |-> "Expr", value |-> value, lineno |-> line, col_offset |-> col]

\* ast.Module
Module(body) == [k |-> "Module", body |-> body]

\* The present optional child as a one-element list.
Opt(n) == IF n.k = "NoNode" THEN <<>> ELSE <<n>>

\* ast.iter_child_nodes(node): the child nodes in _fields order (the
\* arguments/arg wrappers of a FunctionDef are unfolded to the annotations).
Children(n) ==
  CASE n.k = "Module" -> n.body
    [] n.k = "FunctionDef" ->
         Flatten([i \in 1..Len(n.args) |-> Opt(n.args[i].annotation)])
           \o n.body \o Opt(n.returns)
    [] n.k = "AnnAssign" -> <<n.target, n.annotation>> \o Opt(n.value)
    [] n.k = "Assign" -> n.targets \o <<n.value>>
    [] n.k = "ClassDef" -> n.bases \o n.body
    [] n.k = "Expr" -> <<n.value>>
    [] n.k = "Attribute" -> <<n.value>>
    [] n.k = "Subscript" -> <<n.value, n.slice>>
    [] n.k = "Call" -> <<n.func>> \o n.args
    [] n.k = "BinOp" -> <<n.left, n.right>>
    [] n.k \in {"Tuple", "List"} -> n.elts
    [] OTHER -> <<>>

\* ------------------------------------------------------------- source texts
\* The paths a file system may hold, in the order they are added.
AllNames == <<"a.py", "b.py", "c.py", "d.py">>

\* The paths of the directory searched.
FileNames == {AllNames[i] : i \in 1..(IF MaxFiles < Len(AllNames) THEN MaxFiles ELSE Len(AllNames))}

\* The module name of a path: the path without ".py".
ModuleOf(path) == SubSeq(path, 1, Len(path) - 3)

\* The source text that imports module m both ways and uses the imported name:
\*   from . import m / from m import Widget / w: Widget = Widget()
UseSrc(m) ==
  [lines |-> <<"from . import " \o m, "from " \o m \o " import Widget", "w: Widget = Widget()">>,
   tree |-> Module(<<ImportFrom(PyNone, m, PyNone, 1),
                     ImportFrom(m, "Widget", PyNone, 2),
                     AnnAssign(Name("w", 3, 0), Name("Widget", 3, 3),
                               Call(Name("Widget", 3, 12), <<>>, 3, 12), 3, 0)>>)]

\* The names of the source texts a file may hold.
SourceIds ==
  {"ex_a", "ex_b", "use_bc", "strs", "anns", "bad"} \cup {"use_" \o ModuleOf(f) : f \in FileNames}

\* The source texts about imports and their aliases: the forms of a plain
\* import, a file that imports a name and then the module that uses it, and
\* a file that uses the name without importing it.
AliasSourceIds == {"imps", "wb", "uses", "ex_b"}

\* No file at the path.
Missing == "<missing>"

\* A source text: its lines (source.splitlines()) and what ast.parse gives for it.
Source(id) ==
  CASE id = "ex_a" ->
         [lines |-> <<"from b import Widget", "def f(x: Widget) -> None: ...">>,
          tree |-> Module(<<ImportFrom("b", "Widget", PyNone, 1),
                            FunctionDef(<<Arg(Name("Widget", 2, 9), 6)>>,
                                        <<Expr(Constant("Ellipsis", "ellipsis", 2, 26), 2, 26)>>,
                                        Constant("None", "NoneType", 2, 20), 2, 0)>>)]
    [] id = "ex_b" ->
         [lines |-> <<"class Widget: ...">>,
          tree |-> Module(<<ClassDef("Widget", <<>>,
                                     <<Expr(Constant("Ellipsis", "ellipsis", 1, 14), 1, 14)>>,
                                     1, 0)>>)]
    [] id = "use_bc" ->
         [lines |-> <<"from . import b", "from . import c", "from b import Widget",
                      "from c import Gadget", "w: Widget = Gadget()">>,
          tree |-> Module(<<ImportFrom(PyNone, "b", PyNone, 1),
                            ImportFrom(PyNone, "c", PyNone, 2),
                            ImportFrom("b", "Widget", PyNone, 3),
                            ImportFrom("c", "Gadget", PyNone, 4),
                            AnnAssign(Name("w", 5, 0), Name("Widget", 5, 3),
                                      Call(Name("Gadget", 5, 12), <<>>, 5, 12), 5, 0)>>)]
    [] id = "strs" ->
         [lines |-> <<"def f(x: str) -> str: ...">>,
          tree |-> Module(<<FunctionDef(<<Arg(Name("str", 1, 9), 6)>>,
                                        <<Expr(Constant("Ellipsis", "ellipsis", 1, 22), 1, 22)>>,
                                        Name("str", 1, 17), 1, 0)>>)]
    [] id = "anns" ->
         [lines |-> <<"import os", "class K(Base): ...",
                      "def g(x: Dict[str, int], y: int | None) -> List[int]: ...",
                      "v: int = 1">>,
          tree |-> Module(<<Import("os", PyNone, 1),
                            ClassDef("K", <<Name("Base", 2, 8)>>,
                                     <<Expr(Constant("Ellipsis", "ellipsis", 2, 15), 2, 15)>>,
                                     2, 0),
                            FunctionDef(<<Arg(Subscript(Name("Dict", 3, 9),
                                                        TupleN(<<Name("str", 3, 14),
                                                                 Name("int", 3, 19)>>, 3, 14),
                                                        3, 9), 6),
                                          Arg(BinOp(Name("int", 3, 28), "BitOr",
                                                    Constant("None", "NoneType", 3, 34), 3, 28),
                                              25)>>,
                                        <<Expr(Constant("Ellipsis", "ellipsis", 3, 54), 3, 54)>>,
                                        Subscript(Name("List", 3, 43), Name("int", 3, 48), 3, 43),
                                        3, 0),
                            AnnAssign(Name("v", 4, 0), Name("int", 4, 3),
                                      Constant("1", "int", 4, 9), 4, 0)>>)]
    [] id = "imps" ->
         [lines |-> <<"import os", "import os as x", "from os import path", "import a.b.c",
                      "import a.b.c as y", "v: path = os">>,
          tree |-> Module(<<Import("os", PyNone, 1),
                            Import("os", "x", 2),
                            ImportFrom("os", "path", PyNone, 3),
                            Import("a.b.c", PyNone, 4),
                            Import("a.b.c", "y", 5),
                            AnnAssign(Name("v", 6, 0), Name("path", 6, 3), Name("os", 6, 10),
                                      6, 0)>>)]
    [] id = "wb" ->
         [lines |-> <<"from b import Widget", "from . import b", "w: Widget = Widget()">>,
          tree |-> Module(<<ImportFrom("b", "Widget", PyNone, 1),
                            ImportFrom(PyNone, "b", PyNone, 2),
                            AnnAssign(Name("w", 3, 0), Name("Widget", 3, 3),
                                      Call(Name("Widget", 3, 12), <<>>, 3, 12), 3, 0)>>)]
    [] id = "uses" ->
         [lines |-> <<"def g(x: Widget) -> Widget: ...">>,
          tree |-> Module(<<FunctionDef(<<Arg(Name("Widget", 1, 9), 6)>>,
                                        <<Expr(Constant("Ellipsis", "ellipsis", 1, 28), 1, 28)>>,
                                        Name("Widget", 1, 20), 1, 0)>>)]
    [] id = "bad" ->
         [lines |-> <<"def f(:">>,
          tree |-> [k |-> "SyntaxError", msg |-> "invalid syntax", lineno |-> 1]]
    [] OTHER -> UseSrc(SubSeq(id, 5, Len(id)))

\* The search patterns: none, a class the texts import, a builtin type.
Patterns == {PyNone, "Widget", "int"}

\* ---------------------------------------------------------------- variables
VARIABLES
  engine,         \* the program run: "dora" (poogle2), "analyzer" (poogle3),
                  \* "poogle", "second_dora", or "matcher" (type_matches alone)
  fs,             \* the directory: path -> source text name, or Missing
  root,           \* the file named on the command line
  target,         \* the -t argument, PyNone when absent
  status,         \* "init", "running", "returned", "raised"
  exc,            \* the exception that ended the run, "" if none
  stack,          \* the activation records of dora / analyze_file, innermost last
  ret,            \* the list the outermost call returned
  visited_files,  \* dora's visited_files
  import_map,     \* dora's import_map
  analyzed_files, \* TypeAnalyzer.analyzed_files
  imports,        \* ImportTracker.imports
  locations,      \* TypeAnalyzer.locations
  parsed,         \* path -> number of ast.parse calls on it
  indexed,        \* path -> number of visitor runs over its tree
  py_files,       \* poogle / second_dora main: the files to search, in order
  cursor,         \* the index in py_files of the file searched next
  stdout,         \* the lines printed to sys.stdout
  stderr,         \* the lines printed to sys.stderr
  given,          \* the annotation given to type_matches
  matched,        \* what type_matches returned, once status is "returned"
  kind,           \* what get_expr_type returned, once status is "returned"
  roots,          \* the files a caller searches one after the other
  earlier         \* the results of the roots already searched, in order

\* The state of the loops of poogle.main and second_dora.main.
search_vars == <<py_files, cursor, stdout, stderr>>

\* The argument and the result of a call of type_matches or get_expr_type.
matcher_vars == <<given, matched, kind>>

\* The roots of a caller that makes several searches and the results it has.
caller_vars == <<roots, earlier>>

vars == <<engine, fs, root, target, status, exc, stack, ret, visited_files, import_map,
          analyzed_files, imports, locations, parsed, indexed, search_vars, matcher_vars,
          caller_vars>>

\* os.path.exists(path)
Exists(path) == FsKey(path) \in DOMAIN fs /\ fs[FsKey(path)] # Missing

\* ast.parse of the file's text: a Module, or SyntaxError.
Parse(path) == Source(fs[FsKey(path)]).tree

\* source.splitlines() of the file's text.
SourceLines(path) == Source(fs[FsKey(path)]).lines

\* One more call counted for the path.
Bump(count, path) == [count EXCEPT ![path] = @ + 1]

\* ------------------------------------------------------- poogle2: TypeFinder
\* TypeFinder(target_type).visit(node) for a = <<node, target_type>>:
\* finder.results, in visiting order.
TypeFinderVisit[a \in Any] ==
  LET node == a[1]
      target_type == a[2]
      here ==
        CASE node.k = "Name" ->
               IF target_type = PyNone \/ node.id = target_type
               THEN << <<node.lineno, node.col_offset, node.id, "NameExpr">> >>
               ELSE <<>>
          [] node.k = "Call" ->
               IF node.func.k = "Name" /\ (target_type = PyNone \/ node.func.id = target_type)
               THEN << <<node.lineno, node.col_offset, node.func.id, "CallExpr">> >>
               ELSE <<>>
          [] node.k = "Attribute" ->
               IF node.value.k = "Name"
                  /\ (target_type = PyNone \/ node.value.id \o "." \o node.attr = target_type)
               THEN << <<node.lineno, node.col_offset, node.value.id \o "." \o node.attr,
                         "AttributeExpr">> >>
               ELSE <<>>
          [] OTHER -> <<>>
      kids == Children(node)
  IN here \o FlattenF[[i \in 1..Len(kids) |-> TypeFinderVisit[<<kids[i], target_type>>]]]

\* finder = TypeFinder(target_type); finder.visit(tree); finder.results
TypeFinder_visit(node, target_type) == TypeFinderVisit[<<node, target_type>>]

\* import_map.get(key, default)
DictGet(d, key, default) == IF key \in DOMAIN d THEN d[key] ELSE default

\* resolve_import(current_file, import_name): the path, or PyNone.
resolve_import(current_file, import_name) ==
  LET potential_file == PathJoin(Dirname(current_file), StrReplace(import_name, ".", Sep) \o ".py")
  IN IF Exists(potential_file) THEN potential_file ELSE PyNone

\* dora lines 48-51: the file's own results, each with its source file.
DoraOwnResults(filename, tree, map) ==
  LET found == TypeFinder_visit(tree, target)
  IN [i \in 1..Len(found) |->
        <<found[i][1], found[i][2], found[i][3], found[i][4],
          DictGet(map, found[i][3], filename)>>]

\* --------------------------------------------------------------- poogle2: dora
\* dora without the test of lines 36-37: a visited file is read again.
DoraCallRevisit(filename, map) ==
  IF Len(stack) >= RecursionLimit THEN [st |-> "overflow", exc |-> "RecursionError"]
  ELSE IF Parse(filename).k = "SyntaxError" THEN [st |-> "raise", exc |-> "SyntaxError"]
  ELSE [st |-> "enter", results |-> DoraOwnResults(filename, Parse(filename), map)]

\* dora lines 36-51 for a call on filename with the import map as it is at
\* the call: the interpreter refuses the call ("overflow"), the call returns
\* [] at once for a visited file ("skip"),
\* ast.parse raises ("raise"), or the loop over tree.body is entered with the
\* file's own results ("enter").
DoraCall(filename, map) ==
  IF Len(stack) >= RecursionLimit THEN [st |-> "overflow", exc |-> "RecursionError"]
  ELSE IF filename \in visited_files THEN [st |-> "skip"]
  ELSE IF Parse(filename).k = "SyntaxError" THEN [st |-> "raise", exc |-> "SyntaxError"]
  ELSE [st |-> "enter", results |-> DoraOwnResults(filename, Parse(filename), map)]

\* The activation record of a call of dora that entered the loop at line 54:
\* own is the value of results at line 52, before the loop extends it.
DoraFrame(filename, results) ==
  [filename |-> filename, results |-> results, own |-> results, i |-> 1]

\* main line 101: dora(filename, target_type) with a fresh visited set and map.
DoraStart ==
  /\ engine = "dora" /\ status = "init"
  /\ \E c \in {DoraCall(root, import_map)} :
       IF c.st = "skip"
       THEN /\ status' = "returned" /\ ret' = <<>>
            /\ UNCHANGED <<visited_files, parsed, exc, stack, indexed>>
       ELSE /\ visited_files' = visited_files \cup {root}
            /\ parsed' = Bump(parsed, root)
            /\ ret' = ret
            /\ IF c.st = "raise"
               THEN /\ status' = "raised" /\ exc' = c.exc
                    /\ UNCHANGED <<stack, indexed>>
               ELSE /\ status' = "running" /\ exc' = exc
                    /\ stack' = <<DoraFrame(root, c.results)>>
                    /\ indexed' = Bump(indexed, root)
  /\ UNCHANGED <<engine, fs, root, target, import_map, analyzed_files, imports, locations>>
  /\ UNCHANGED <<search_vars, matcher_vars, caller_vars>>

\* The innermost activation record.
Top == stack[Len(stack)]

\* The statements of the file the innermost call is in.
TopBody == Parse(Top.filename).body

\* The stack with the innermost record's loop index advanced.
Advance == [stack EXCEPT ![Len(stack)].i = @ + 1]

\* dora line 63-66: the full imported name of an ImportFrom alias.
FullImportedName(node) ==
  IF node.module # PyNone THEN node.module \o "." \o node.name ELSE node.name

\* Python `alias.asname or alias.name`.
AsnameOr(asname, name) == IF asname # PyNone /\ asname # "" THEN asname ELSE name

\* dora lines 54-57: an ast.Import statement only binds its alias.
DoraImportStmt ==
  /\ engine = "dora" /\ status = "running"
  /\ Top.i <= Len(TopBody)
  /\ TopBody[Top.i].k = "Import"
  /\ LET node == TopBody[Top.i] IN
       import_map' = DictSet(import_map, AsnameOr(node.asname, node.name), node.name)
  /\ stack' = Advance
  /\ UNCHANGED <<engine, fs, root, target, status, exc, ret, visited_files, analyzed_files,
                 imports, locations, parsed, indexed>>
  /\ UNCHANGED <<search_vars, matcher_vars, caller_vars>>

\* dora lines 58-72: an ast.ImportFrom statement binds its alias and, when no
\* target is given or the full imported name is the target, calls dora on the
\* file resolve_import finds.
DoraImportFrom ==
  /\ engine = "dora" /\ status = "running"
  /\ Top.i <= Len(TopBody)
  /\ TopBody[Top.i].k = "ImportFrom"
  /\ LET node == TopBody[Top.i]
         full_imported_name == FullImportedName(node)
         map == DictSet(import_map, AsnameOr(node.asname, node.name), full_imported_name)
         imported_file == resolve_import(Top.filename, full_imported_name)
         follows == /\ (target = PyNone \/ full_imported_name = target)
                    /\ imported_file # PyNone
     IN \E c \in {IF follows THEN DoraCall(imported_file, map) ELSE [st |-> "skip"]} :
       /\ import_map' = map
       /\ IF c.st = "skip"
          THEN /\ stack' = Advance
               /\ UNCHANGED <<status, exc, visited_files, parsed, indexed>>
          ELSE IF c.st = "overflow"
          THEN /\ status' = "raised" /\ exc' = c.exc /\ stack' = <<>>
               /\ UNCHANGED <<visited_files, parsed, indexed>>
          ELSE /\ visited_files' = visited_files \cup {imported_file}
               /\ parsed' = Bump(parsed, imported_file)
               /\ IF c.st = "raise"
                  THEN /\ status' = "raised" /\ exc' = c.exc
                       /\ stack' = <<>>
                       /\ UNCHANGED indexed
                  ELSE /\ stack' = Append(Advance, DoraFrame(imported_file, c.results))
                       /\ indexed' = Bump(indexed, imported_file)
                       /\ UNCHANGED <<status, exc>>
  /\ UNCHANGED <<engine, fs, root, target, ret, analyzed_files, imports, locations>>
  /\ UNCHANGED <<search_vars, matcher_vars, caller_vars>>

\* dora line 54-58: a statement that is no import is passed over.
DoraOtherStmt ==
  /\ engine = "dora" /\ status = "running"
  /\ Top.i <= Len(TopBody)
  /\ TopBody[Top.i].k \notin {"Import", "ImportFrom"}
  /\ stack' = Advance
  /\ UNCHANGED <<engine, fs, root, target, status, exc, ret, visited_files, import_map,
                 analyzed_files, imports, locations, parsed, indexed>>
  /\ UNCHANGED <<search_vars, matcher_vars, caller_vars>>

\* dora line 74 and, in the caller, line 72: return results; the caller extends
\* its own results with them, the outermost call hands them to main.
DoraReturn ==
  /\ engine = "dora" /\ status = "running"
  /\ Top.i > Len(TopBody)
  /\ IF Len(stack) = 1
     THEN /\ ret' = Top.results /\ status' = "returned" /\ stack' = <<>>
     ELSE /\ stack' = [SubSeq(stack, 1, Len(stack) - 1)
                         EXCEPT ![Len(stack) - 1].results = @ \o Top.results]
          /\ UNCHANGED <<ret, status>>
  /\ UNCHANGED <<engine, fs, root, target, exc, visited_files, import_map, analyzed_files,
                 imports, locations, parsed, indexed>>
  /\ UNCHANGED <<search_vars, matcher_vars, caller_vars>>

\* main lines 103-105: the header of the block printed for a result, the line
\* naming the type, and the pointer line.
DoraBlockHead(filename, r) ==
  <<filename \o ":" \o ToString(r[1]) \o ":" \o ToString(r[2]),
    "      " \o r[3] \o " (" \o r[4] \o ", " \o r[3] \o " from \"" \o r[5] \o "\")",
    "      v">>

\* main lines 102-109: one pass of the loop over the results of dora: the
\* block of the result is printed with the name and the lines of the file
\* given on the command line; lines[lineno - 1] raises IndexError when that
\* file has fewer lines.
DoraPrint ==
  /\ engine = "dora" /\ status = "returned"
  /\ cursor <= Len(ret)
  /\ LET r == ret[cursor]
         lines == SourceLines(root)
     IN IF r[1] - 1 < Len(lines)
        THEN /\ stdout' = stdout \o DoraBlockHead(root, r) \o <<RStrip[lines[r[1]]], "">>
             /\ cursor' = cursor + 1
             /\ UNCHANGED <<status, exc>>
        ELSE /\ stdout' = stdout \o DoraBlockHead(root, r)
             /\ status' = "raised" /\ exc' = "IndexError"
             /\ cursor' = cursor
  /\ UNCHANGED <<engine, fs, root, target, stack, ret, visited_files, import_map,
                 analyzed_files, imports, locations, parsed, indexed, py_files, stderr,
                 matcher_vars, caller_vars>>

\* ----------------------------------------------------- poogle3: TypeVisitor
\* TypeLocation(file, line, column, type_name, expr_kind, source_line), with
\* source_line = source_lines[line - 1].strip() and source_file = None.
TypeLocation(file, line, column, type_name, expr_kind, source_lines) ==
  [file |-> file, line |-> line, column |-> column, type_name |-> type_name,
   expr_kind |-> expr_kind, source_line |-> Strip(source_lines[line]),
   source_file |-> PyNone]

\* The place in a list of locations where the visitor raised: what was appended
\* before it stays before it, the exception leaves the visitor.
Raised(e) == [raise |-> e]

\* Whether an entry of a visitor's list marks a raise.
IsRaised(x) == DOMAIN x = {"raise"}

\* Whether the visitor raised while it built the list.
Raises(locs) == \E i \in 1..Len(locs) : IsRaised(locs[i])

\* TypeVisitor._handle_subscript(node, lineno): node.value.id and node.slice.id
\* at line 92 raise AttributeError unless both are ast.Name.
handle_subscript(node, lineno, file, source_lines) ==
  (IF node.value.k = "Name"
   THEN <<TypeLocation(file, lineno, node.col_offset, node.value.id, "NameExpr", source_lines)>>
   ELSE <<>>)
  \o (IF node.slice.k = "Name"
      THEN <<TypeLocation(file, lineno, node.slice.col_offset, node.slice.id, "NameExpr",
                          source_lines)>>
      ELSE <<>>)
  \o (IF node.value.k = "Name" /\ node.slice.k = "Name"
      THEN <<TypeLocation(file, lineno, node.col_offset,
                          node.value.id \o "[" \o node.slice.id \o "]", "SubscriptExpr",
                          source_lines)>>
      ELSE <<Raised("AttributeError")>>)

\* The locations an annotation in a def or an annotated assignment gives:
\* a Name gives itself at the given column, a Subscript goes to
\* _handle_subscript, anything else gives nothing.
AnnotationLocations(ann, lineno, column, file, source_lines) ==
  CASE ann.k = "Name" ->
         <<TypeLocation(file, lineno, column, ann.id, "NameExpr", source_lines)>>
    [] ann.k = "Subscript" -> handle_subscript(ann, lineno, file, source_lines)
    [] OTHER -> <<>>

\* TypeVisitor(file_path, source_lines).visit(node) for
\* a = <<node, file_path, source_lines>>: visitor.locations, in visiting order.
TypeVisitorVisit[a \in Any] ==
  LET node == a[1]
      file == a[2]
      source_lines == a[3]
      kids == Children(node)
      generic_visit ==
        FlattenF[[i \in 1..Len(kids) |-> TypeVisitorVisit[<<kids[i], file, source_lines>>]]]
  IN
  CASE node.k = "FunctionDef" ->
         FlattenF[[i \in 1..Len(node.args) |->
                     AnnotationLocations(node.args[i].annotation, node.lineno,
                                         node.args[i].col_offset, file, source_lines)]]
           \o AnnotationLocations(node.returns, node.lineno, node.col_offset, file,
                                  source_lines)
           \o generic_visit
    [] node.k = "Name" ->
         <<TypeLocation(file, node.lineno, node.col_offset, node.id, "NameExpr",
                        source_lines)>>
    [] node.k = "Constant" ->
         IF node.vtype = "str"
         THEN <<TypeLocation(file, node.lineno, node.col_offset,
                             "\"" \o node.value \o "\"", "strExpr", source_lines)>>
         ELSE <<>>
    [] node.k = "AnnAssign" ->
         (IF node.target.k = "Name"
          THEN <<TypeLocation(file, node.lineno, node.target.col_offset, node.target.id,
                              "NameExpr", source_lines)>>
          ELSE <<>>)
           \o AnnotationLocations(node.annotation, node.lineno, node.annotation.col_offset,
                                  file, source_lines)
           \o (IF node.value.k # "NoNode"
               THEN TypeVisitorVisit[<<node.value, file, source_lines>>]
               ELSE <<>>)
           \o generic_visit
    [] node.k = "Assign" ->
         FlattenF[[i \in 1..Len(node.targets) |->
                     IF node.targets[i].k = "Name"
                     THEN <<TypeLocation(file, node.lineno, node.targets[i].col_offset,
                                         node.targets[i].id, "NameExpr", source_lines)>>
                     ELSE <<>>]]
           \o TypeVisitorVisit[<<node.value, file, source_lines>>]
           \o generic_visit
    [] OTHER -> generic_visit

\* visitor = TypeVisitor(file_path, source_lines); visitor.visit(tree);
\* visitor.locations
TypeVisitor_visit(node, file, source_lines) == TypeVisitorVisit[<<node, file, source_lines>>]

\* --------------------------------------------------- poogle3: ImportTracker
\* An ImportTracker that takes no module for a built-in one.
NoBuiltinModules == {}

\* ImportTracker.BUILTIN_MODULES
BUILTIN_MODULES ==
  {"typing", "collections", "datetime", "os", "sys", "pathlib", "json", "re", "math",
   "random", "time", "itertools", "functools"}

\* ast.walk(tree), from a queue of nodes: breadth first.
WalkFrom[queue \in Any] ==
  IF queue = <<>> THEN <<>>
  ELSE <<Head(queue)>> \o WalkFrom[Tail(queue) \o Children(Head(queue))]

\* The loop `for part in module_parts: module_path = module_path / part`, for
\* a = <<module_path, module_parts>>.
PathOfParts[a \in Any] ==
  IF a[2] = <<>> THEN a[1]
  ELSE PathOfParts[<<PathDiv(a[1], Head(a[2])), Tail(a[2])>>]

\* Lines 193-197 and 208-212: the path a dotted module name stands for, beside
\* the importing file.
ModulePath(file_path, module) ==
  PathOfParts[<<PathParent(file_path), StrSplit(module, ".")>>] \o ".py"

\* The body of the loop of analyze_imports for one node of the walk.
TrackImport(map, node, file_path) ==
  CASE node.k = "ImportFrom" ->
         IF node.module \in BUILTIN_MODULES THEN map
         ELSE IF node.module # PyNone /\ node.module # ""
         THEN DictSet(map, node.name, ModulePath(file_path, node.module))
         ELSE map
    [] node.k = "Import" ->
         IF node.name \in BUILTIN_MODULES THEN map
         ELSE DictSet(map, node.name, ModulePath(file_path, node.name))
    [] OTHER -> map

\* The loop of analyze_imports over the nodes of the walk, for
\* a = <<self.imports, nodes, file_path>>.
TrackImports[a \in Any] ==
  IF a[2] = <<>> THEN a[1]
  ELSE TrackImports[<<TrackImport(a[1], Head(a[2]), a[3]), Tail(a[2]), a[3]>>]

\* ImportTracker.analyze_imports(file_path) on a file that parses: the new
\* value of self.imports.
analyze_imports(map, file_path) ==
  TrackImports[<<map, WalkFrom[<<Parse(file_path)>>], file_path>>]

\* ---------------------------------------------------- poogle3: TypeAnalyzer
\* analyze_file lines 222-234 for a call on file_path: the interpreter
\* refuses the call ("overflow"), the call returns at once for an analyzed
\* file ("skip"), raises (open at line 183, ast.parse at
\* line 184, the visitor at line 234), or enters the loop at line 236.
\* parses counts the ast.parse calls made: line 184 and line 231.
AnalyzerCall(file_path, map) ==
  IF Len(stack) >= RecursionLimit THEN [st |-> "overflow", exc |-> "RecursionError"]
  ELSE IF file_path \in analyzed_files THEN [st |-> "skip"]
  ELSE IF ~Exists(file_path)
  THEN [st |-> "raise", exc |-> "FileNotFoundError", parses |-> 0, visits |-> 0, imports |-> map]
  ELSE IF Parse(file_path).k = "SyntaxError"
  THEN [st |-> "raise", exc |-> "SyntaxError", parses |-> 1, visits |-> 0, imports |-> map]
  ELSE LET vlocs == TypeVisitor_visit(Parse(file_path), file_path, SourceLines(file_path))
           newmap == analyze_imports(map, file_path)
       IN IF Raises(vlocs)
          THEN [st |-> "raise", exc |-> "AttributeError", parses |-> 2, visits |-> 1,
                imports |-> newmap]
          ELSE [st |-> "enter", parses |-> 2, visits |-> 1, imports |-> newmap,
                vlocs |-> vlocs]

\* The activation record of a call of analyze_file that entered the loop at
\* line 236 over visitor.locations.
AnalyzerFrame(file_path, vlocs) == [filename |-> file_path, vlocs |-> vlocs, i |-> 1]

\* A count raised by n for a path the directory has.
BumpBy(count, path, n) ==
  IF path \in DOMAIN count THEN [count EXCEPT ![path] = @ + n] ELSE count

\* main line 294: TypeAnalyzer().analyze_file(Path(args.file), args.type).
AnalyzerStart ==
  /\ engine = "analyzer" /\ status = "init"
  /\ \E c \in {AnalyzerCall(root, imports)} :
       IF c.st = "skip"
       THEN /\ status' = "returned" /\ ret' = locations
            /\ UNCHANGED <<analyzed_files, parsed, indexed, imports, exc, stack>>
       ELSE /\ analyzed_files' = analyzed_files \cup {root}
            /\ parsed' = BumpBy(parsed, root, c.parses)
            /\ indexed' = BumpBy(indexed, root, c.visits)
            /\ imports' = c.imports
            /\ ret' = ret
            /\ IF c.st = "raise"
               THEN /\ status' = "raised" /\ exc' = c.exc /\ stack' = <<>>
               ELSE /\ status' = "running" /\ exc' = exc
                    /\ stack' = <<AnalyzerFrame(root, c.vlocs)>>
  /\ UNCHANGED <<engine, fs, root, target, visited_files, import_map, locations>>
  /\ UNCHANGED <<search_vars, matcher_vars, caller_vars>>

\* Line 241: `type_pattern is None or type_pattern in type_name`.
PatternPasses(type_pattern, type_name) ==
  type_pattern = PyNone \/ StrContains(type_pattern, type_name)

\* Lines 237-239: the location with its source file set from the imports.
WithSourceFile(location, map) ==
  IF location.type_name \in DOMAIN map
  THEN [location EXCEPT !.source_file = map[location.type_name]]
  ELSE location

\* Python truth of an optional string.
Truthy(s) == s # PyNone /\ s # ""

\* analyze_file lines 236-244: one pass of the loop over visitor.locations; a
\* passing location is appended to self.locations and, when it has a source
\* file, analyze_file is called on that file.
AnalyzerLocation ==
  /\ engine = "analyzer" /\ status = "running"
  /\ Top.i <= Len(Top.vlocs)
  /\ LET location == WithSourceFile(Top.vlocs[Top.i], imports)
         passes == PatternPasses(target, location.type_name)
         calls == passes /\ Truthy(location.source_file)
     IN \E c \in {IF calls THEN AnalyzerCall(location.source_file, imports)
                 ELSE [st |-> "skip"]} :
       /\ locations' = IF passes THEN Append(locations, location) ELSE locations
       /\ IF c.st = "skip"
          THEN /\ stack' = Advance
               /\ UNCHANGED <<status, exc, analyzed_files, imports, parsed, indexed>>
          ELSE IF c.st = "overflow"
          THEN /\ status' = "raised" /\ exc' = c.exc /\ stack' = <<>>
               /\ UNCHANGED <<analyzed_files, imports, parsed, indexed>>
          ELSE /\ analyzed_files' = analyzed_files \cup {location.source_file}
               /\ parsed' = BumpBy(parsed, location.source_file, c.parses)
               /\ indexed' = BumpBy(indexed, location.source_file, c.visits)
               /\ imports' = c.imports
               /\ IF c.st = "raise"
                  THEN /\ status' = "raised" /\ exc' = c.exc /\ stack' = <<>>
                  ELSE /\ stack' = Append(Advance, AnalyzerFrame(location.source_file, c.vlocs))
                       /\ UNCHANGED <<status, exc>>
  /\ UNCHANGED <<engine, fs, root, target, ret, visited_files, import_map>>
  /\ UNCHANGED <<search_vars, matcher_vars, caller_vars>>

\* analyze_file line 246: return self.locations; the value is used by main
\* alone, the recursive call at line 244 drops it.
AnalyzerReturn ==
  /\ engine = "analyzer" /\ status = "running"
  /\ Top.i > Len(Top.vlocs)
  /\ stack' = SubSeq(stack, 1, Len(stack) - 1)
  /\ IF Len(stack) = 1
     THEN ret' = locations /\ status' = "returned"
     ELSE UNCHANGED <<ret, status>>
  /\ UNCHANGED <<engine, fs, root, target, exc, visited_files, import_map, analyzed_files,
                 imports, locations, parsed, indexed>>
  /\ UNCHANGED <<search_vars, matcher_vars, caller_vars>>

\* ------------------------------------------------------------------ poogle
\* type_matches(annotation, target_type) for a = <<annotation, target_type>>.
TypeMatches[a \in Any] ==
  LET annotation == a[1]
      target_type == a[2]
  IN
  CASE annotation.k = "Name" -> annotation.id = target_type
    [] annotation.k = "Attribute" -> annotation.attr = target_type
    [] annotation.k = "Subscript" ->
         TypeMatches[<<annotation.value, target_type>>]
           \/ TypeMatches[<<annotation.slice, target_type>>]
    [] annotation.k = "Tuple" ->
         \E i \in 1..Len(annotation.elts) : TypeMatches[<<annotation.elts[i], target_type>>]
    [] annotation.k = "List" ->
         \E i \in 1..Len(annotation.elts) : TypeMatches[<<annotation.elts[i], target_type>>]
    [] annotation.k = "BinOp" /\ annotation.op = "BitOr" ->
         TypeMatches[<<annotation.left, target_type>>]
           \/ TypeMatches[<<annotation.right, target_type>>]
    [] annotation.k = "Call" ->
         TypeMatches[<<annotation.func, target_type>>]
           \/ \E i \in 1..Len(annotation.args) : TypeMatches[<<annotation.args[i], target_type>>]
    [] OTHER -> FALSE

\* type_matches without line 35's second disjunct: a Subscript matches by its
\* base alone.
type_matches_base_only(annotation, target_type) ==
  IF annotation.k = "Subscript"
  THEN TypeMatches[<<annotation.value, target_type>>]
  ELSE TypeMatches[<<annotation, target_type>>]

\* type_matches(annotation, target_type)
type_matches(annotation, target_type) == TypeMatches[<<annotation, target_type>>]

\* The entry extract_annotations appends for an annotation that is there.
AnnotationEntry(x) == IF x.k = "NoNode" THEN <<>> ELSE << <<x, x.lineno, x.col_offset>> >>

\* AnnotationVisitor().visit(node): the entries appended, in visiting order.
\* An Assign appends nothing: its type_comment is None, as ast.parse is called
\* without type_comments.
AnnotationVisit[node \in Any] ==
  LET kids == Children(node)
      generic_visit == FlattenF[[i \in 1..Len(kids) |-> AnnotationVisit[kids[i]]]]
  IN
  CASE node.k = "FunctionDef" ->
         FlattenF[[i \in 1..Len(node.args) |-> AnnotationEntry(node.args[i].annotation)]]
           \o AnnotationEntry(node.returns)
           \o generic_visit
    [] node.k = "AnnAssign" -> AnnotationEntry(node.annotation) \o generic_visit
    [] node.k = "ClassDef" ->
         [i \in 1..Len(node.bases) |->
            <<node.bases[i], node.bases[i].lineno, node.bases[i].col_offset>>]
           \o generic_visit
    [] OTHER -> generic_visit

\* extract_annotations(node)
extract_annotations(node) == AnnotationVisit[node]

\* str(e) of the SyntaxError ast.parse(source, filename=file_path) raises.
SyntaxErrorText(err, file_path) ==
  err.msg \o " (" \o Basename(file_path) \o ", line " \o ToString(err.lineno) \o ")"

\* poogle.search_file(file_path, target_type): the matches returned and the
\* lines printed.
poogle_search_file(file_path, target_type) ==
  LET tree == Parse(file_path)
      annotations == extract_annotations(tree)
      hits == SelectSeq(annotations, LAMBDA t : type_matches(t[1], target_type))
  IN IF tree.k = "SyntaxError"
     THEN [matches |-> <<>>,
           printed |-> <<"Skipping " \o file_path \o ": " \o SyntaxErrorText(tree, file_path)>>]
     ELSE [matches |-> [i \in 1..Len(hits) |-> <<hits[i][2], hits[i][3], target_type>>],
           printed |-> <<>>]

\* The paths given on the command line: the files of the directory by name.
Paths == SelectSeq(AllNames, LAMBDA p : p \in FileNames)

\* find_py_files(paths) for paths that name files: those that are files and
\* end in ".py", made absolute.
find_py_files(paths) ==
  LET found == SelectSeq(paths, LAMBDA p : Exists(p) /\ EndsWith(p, ".py"))
  IN [i \in 1..Len(found) |-> abspath(found[i])]

\* poogle.main lines 109-116: the files are collected; with none, a message
\* is printed and main returns.
PoogleMain ==
  /\ engine = "poogle" /\ status = "init"
  /\ py_files' = find_py_files(Paths)
  /\ cursor' = 1
  /\ IF py_files' = <<>>
     THEN status' = "returned" /\ stdout' = Append(stdout, "No Python files found.")
     ELSE status' = "running" /\ stdout' = stdout
  /\ UNCHANGED <<engine, fs, root, target, exc, stack, ret, visited_files, import_map,
                 analyzed_files, imports, locations, parsed, indexed, stderr, matcher_vars, caller_vars>>

\* poogle.main lines 118-121: one file is searched and its matches printed.
PoogleFile ==
  /\ engine = "poogle" /\ status = "running"
  /\ cursor <= Len(py_files)
  /\ \E r \in {poogle_search_file(py_files[cursor], target)} :
       /\ ret' = Append(ret, [file |-> py_files[cursor], matches |-> r.matches])
       /\ stdout' = stdout \o r.printed
            \o [i \in 1..Len(r.matches) |->
                  py_files[cursor] \o ":" \o ToString(r.matches[i][1]) \o ":"
                    \o ToString(r.matches[i][2])]
  /\ parsed' = Bump(parsed, FsKey(py_files[cursor]))
  /\ cursor' = cursor + 1
  /\ UNCHANGED <<engine, fs, root, target, status, exc, stack, visited_files, import_map,
                 analyzed_files, imports, locations, indexed, py_files, stderr, matcher_vars, caller_vars>>

\* poogle.main: the loop at line 118 is exhausted and main returns.
PoogleExit ==
  /\ engine = "poogle" /\ status = "running"
  /\ cursor > Len(py_files)
  /\ status' = "returned"
  /\ UNCHANGED <<engine, fs, root, target, exc, stack, ret, visited_files, import_map,
                 analyzed_files, imports, locations, parsed, indexed, search_vars,
                 matcher_vars, caller_vars>>

\* ------------------------------------------------------------- second_dora
\* get_expr_type(node)
get_expr_type(node) ==
  CASE node.k = "Call" -> "CallExpr"
    [] node.k = "Name" -> "NameExpr"
    [] node.k = "Attribute" -> "AttributeExpr"
    [] node.k = "Subscript" -> "SubscriptExpr"
    [] node.k = "Constant" -> node.vtype \o "Expr"
    [] node.k = "BinOp" -> "BinOpExpr"
    [] node.k = "UnaryOp" -> "UnaryOpExpr"
    [] node.k = "List" -> "ListExpr"
    [] node.k = "Tuple" -> "TupleExpr"
    [] node.k = "Dict" -> "DictExpr"
    [] node.k = "Lambda" -> "LambdaExpr"
    [] node.k = "Compare" -> "CompareExpr"
    [] node.k = "BoolOp" -> "BoolOpExpr"
    [] node.k = "IfExp" -> "IfExpExpr"
    [] node.k = "Expr" -> "Expr"
    [] OTHER -> node.k

\* Python sep.join(parts)
StrJoin[a \in Any] ==
  IF a[2] = <<>> THEN ""
  ELSE IF Len(a[2]) = 1 THEN a[2][1]
  ELSE a[2][1] \o a[1] \o StrJoin[<<a[1], Tail(a[2])>>]

\* repr(node.value) of an ast.Constant.
Repr(node) == IF node.vtype = "str" THEN "'" \o node.value \o "'" ELSE node.value

\* get_fully_qualified_name(node, aliases); the aliases are not used.
FullyQualifiedName[node \in Any] ==
  CASE node.k = "Name" -> node.id
    [] node.k = "Attribute" ->
         LET value == FullyQualifiedName[node.value]
         IN IF value # "" THEN value \o "." \o node.attr ELSE node.attr
    [] node.k = "Subscript" ->
         FullyQualifiedName[node.value] \o "[" \o FullyQualifiedName[node.slice] \o "]"
    [] node.k \in {"Tuple", "List"} ->
         StrJoin[<<", ", [i \in 1..Len(node.elts) |-> FullyQualifiedName[node.elts[i]]]>>]
    [] node.k = "Constant" -> Repr(node)
    [] OTHER -> ""

\* get_fully_qualified_name(node, aliases)
get_fully_qualified_name(node, aliases) == FullyQualifiedName[node]

\* sys.stdlib_module_names, as far as the source texts import from it.
StdlibModules == {"os"}

\* __import__(name).__file__: the file of a standard-library module; PyNone
\* stands for ImportError, which every other import raises, the directory
\* searched not being on sys.path.
ImportedFile(name) ==
  IF name \in StdlibModules THEN "/usr/lib/python3/" \o name \o ".py" ELSE PyNone

\* get_package_info(module_name), with no distribution installed under the name.
get_package_info(module_name) ==
  IF module_name \in StdlibModules THEN <<module_name, "Python Standard Library">>
  ELSE <<PyNone, PyNone>>

\* extract_imports lines 135-165: the entry one statement adds to aliases.
ImportAlias(aliases, child, file_path) ==
  LET asname == AsnameOr(child.asname, child.name)
  IN
  CASE child.k = "Import" ->
         LET file == ImportedFile(StrSplit(child.name, ".")[1])
         IN DictSet(aliases, asname,
                    IF file # PyNone
                    THEN <<child.name, file, get_package_info(child.name)>>
                    ELSE <<child.name, child.name, <<PyNone, PyNone>> >>)
    [] child.k = "ImportFrom" ->
         LET full_name == FullImportedName(child)
         IN DictSet(aliases, asname,
                    IF child.module = PyNone
                    THEN <<full_name, abspath(Dirname(file_path)), <<PyNone, "Local module">> >>
                    ELSE LET file == ImportedFile(StrSplit(child.module, ".")[1])
                         IN IF file # PyNone
                            THEN <<full_name, file, get_package_info(child.module)>>
                            ELSE <<full_name, child.module, <<PyNone, PyNone>> >>)
    [] OTHER -> aliases

\* The loop of extract_imports over the statements, for
\* a = <<aliases, statements, file_path>>.
ExtractImports[a \in Any] ==
  IF a[2] = <<>> THEN a[1]
  ELSE ExtractImports[<<ImportAlias(a[1], Head(a[2]), a[3]), Tail(a[2]), a[3]>>]

\* extract_imports(node, file_path)
extract_imports(node, file_path) == ExtractImports[<<EmptyDict, Children(node), file_path>>]

\* ExprVisitor().visit(node): the nodes appended, in visiting order.
ExprVisit[node \in Any] ==
  LET kids == Children(node)
  IN (IF node.k \in {"Call", "Name", "Attribute", "Subscript", "Constant"}
      THEN <<node>> ELSE <<>>)
       \o FlattenF[[i \in 1..Len(kids) |-> ExprVisit[kids[i]]]]

\* extract_expressions(node, aliases)
extract_expressions(node, aliases) == ExprVisit[node]

\* infer_type(node, aliases)
infer_type(node, aliases) ==
  CASE node.k = "Call" ->
         LET func_name == get_fully_qualified_name(node.func, aliases)
         IN IF func_name # "" THEN func_name ELSE "Unknown"
    [] node.k = "Name" -> node.id
    [] node.k = "Attribute" -> get_fully_qualified_name(node, aliases)
    [] node.k = "Constant" -> node.vtype
    [] node.k = "Subscript" -> get_fully_qualified_name(node, aliases)
    [] node.k = "BinOp" -> "BinOp"
    [] node.k = "UnaryOp" -> "UnaryOp"
    [] node.k = "List" -> "List"
    [] node.k = "Tuple" -> "Tuple"
    [] node.k = "Dict" -> "Dict"
    [] node.k = "Lambda" -> "Lambda"
    [] node.k = "Compare" -> "Compare"
    [] node.k = "BoolOp" -> "BoolOp"
    [] node.k = "IfExp" -> "IfExp"
    [] OTHER -> "Unknown"

\* The entry extract_annotations_and_exprs appends for an annotation that is
\* there.
TypedEntry(x, aliases) ==
  IF x.k = "NoNode" THEN <<>> ELSE << <<x, get_fully_qualified_name(x, aliases)>> >>

\* AnnotationExprVisitor().visit(node) for a = <<node, aliases>>: the entries
\* appended, in visiting order.
AnnotationExprVisit[a \in Any] ==
  LET node == a[1]
      aliases == a[2]
      kids == Children(node)
      generic_visit ==
        FlattenF[[i \in 1..Len(kids) |-> AnnotationExprVisit[<<kids[i], aliases>>]]]
  IN
  CASE node.k = "FunctionDef" ->
         FlattenF[[i \in 1..Len(node.args) |-> TypedEntry(node.args[i].annotation, aliases)]]
           \o TypedEntry(node.returns, aliases)
           \o generic_visit
    [] node.k = "AnnAssign" -> TypedEntry(node.annotation, aliases) \o generic_visit
    [] node.k = "ClassDef" ->
         FlattenF[[i \in 1..Len(node.bases) |-> TypedEntry(node.bases[i], aliases)]]
           \o generic_visit
    [] OTHER -> generic_visit

\* extract_annotations_and_exprs(node, aliases): the annotations, then every
\* expression with its inferred type.
extract_annotations_and_exprs(node, aliases) ==
  LET exprs == extract_expressions(node, aliases)
  IN AnnotationExprVisit[<<node, aliases>>]
       \o [i \in 1..Len(exprs) |-> <<exprs[i], infer_type(exprs[i], aliases)>>]

\* search_file without the test at line 327: every entry is kept.
TypeStrPassesAll(target_type, type_str) == TRUE

\* search_file line 327: `if target_type and type_str != target_type: continue`.
TypeStrPasses(target_type, type_str) == ~(Truthy(target_type) /\ type_str # target_type)

\* search_file lines 316-339: the match appended for a node that passes.  The
\* trees hold no end positions: expr_str is left out.
SearchMatch(node, type_str, lines, aliases) ==
  LET known == node.k = "Name" /\ node.id \in DOMAIN aliases
      source == aliases[node.id][2]
  IN [line_no |-> node.lineno,
      col_offset |-> node.col_offset,
      type_str |-> type_str,
      expr_type |-> get_expr_type(node),
      source_line |-> IF node.lineno - 1 < Len(lines) THEN lines[node.lineno] ELSE "",
      import_source |-> IF ~known THEN PyNone
                        ELSE IF EndsWith(source, ".py") THEN Basename(source) ELSE source,
      pkg_info |-> IF known THEN aliases[node.id][3] ELSE PyNone]

\* second_dora.search_file(file_path, target_type): the matches returned and
\* the lines written to sys.stderr.
second_dora_search_file(file_path, target_type) ==
  LET tree == Parse(file_path)
      aliases == extract_imports(tree, file_path)
      annotations_and_exprs == extract_annotations_and_exprs(tree, aliases)
      lines == SourceLines(file_path)
      kept == SelectSeq(annotations_and_exprs, LAMBDA p : TypeStrPasses(target_type, p[2]))
  IN IF tree.k = "SyntaxError"
     THEN [matches |-> <<>>,
           errors |-> <<"Skipping " \o file_path \o ": " \o SyntaxErrorText(tree, file_path)>>]
     ELSE [matches |-> [i \in 1..Len(kept) |->
                          SearchMatch(kept[i][1], kept[i][2], lines, aliases)],
           errors |-> <<>>]

\* second_dora.main lines 354-361: the files are collected; with none, a
\* message is printed and main returns.
SecondDoraMain ==
  /\ engine = "second_dora" /\ status = "init"
  /\ py_files' = find_py_files(Paths)
  /\ cursor' = 1
  /\ IF py_files' = <<>>
     THEN status' = "returned" /\ stdout' = Append(stdout, "No Python files found.")
     ELSE status' = "running" /\ stdout' = stdout
  /\ UNCHANGED <<engine, fs, root, target, exc, stack, ret, visited_files, import_map,
                 analyzed_files, imports, locations, parsed, indexed, stderr, matcher_vars, caller_vars>>

\* second_dora.main lines 363-387: one file is searched and, per match, the
\* header `file:line:col` is printed (the coloured lines after it are the
\* formatter's and are left out).
SecondDoraFile ==
  /\ engine = "second_dora" /\ status = "running"
  /\ cursor <= Len(py_files)
  /\ \E r \in {second_dora_search_file(py_files[cursor], target)} :
       /\ ret' = Append(ret, [file |-> py_files[cursor], matches |-> r.matches])
       /\ stderr' = stderr \o r.errors
       /\ stdout' = stdout
            \o [i \in 1..Len(r.matches) |->
                  py_files[cursor] \o ":" \o ToString(r.matches[i].line_no) \o ":"
                    \o ToString(r.matches[i].col_offset)]
  /\ parsed' = Bump(parsed, FsKey(py_files[cursor]))
  /\ cursor' = cursor + 1
  /\ UNCHANGED <<engine, fs, root, target, status, exc, stack, visited_files, import_map,
                 analyzed_files, imports, locations, indexed, py_files, matcher_vars, caller_vars>>

\* second_dora.main: the loop at line 363 is exhausted and main returns.
SecondDoraExit ==
  /\ engine = "second_dora" /\ status = "running"
  /\ cursor > Len(py_files)
  /\ status' = "returned"
  /\ UNCHANGED <<engine, fs, root, target, exc, stack, ret, visited_files, import_map,
                 analyzed_files, imports, locations, parsed, indexed, search_vars,
                 matcher_vars, caller_vars>>

\* ------------------------------------------------------------ specification
\* The state of a program at its start, whatever its arguments.
Fresh ==
  /\ status = "init" /\ exc = "" /\ stack = <<>> /\ ret = <<>>
  /\ visited_files = {} /\ import_map = EmptyDict
  /\ analyzed_files = {} /\ imports = EmptyDict /\ locations = <<>>
  /\ parsed = [f \in FileNames |-> 0]
  /\ indexed = [f \in FileNames |-> 0]
  /\ py_files = <<>> /\ cursor = 1 /\ stdout = <<>> /\ stderr = <<>>
  /\ matched = FALSE
  /\ kind = ""
  /\ earlier = <<>>

\* poogle2 and poogle3 are given a root file that exists (main of poogle2
\* checks it at line 97) and an optional pattern; poogle and second_dora are
\* given the paths of the directory, poogle a type, second_dora an optional
\* one.
Init ==
  /\ engine \in {"dora", "analyzer", "poogle", "second_dora"}
  /\ fs \in [FileNames -> SourceIds \cup {Missing}]
  /\ root = "a.py"
  /\ engine \in {"dora", "analyzer"} => fs[root] # Missing
  /\ target \in Patterns
  /\ engine = "poogle" => target # PyNone
  /\ given = NoNode
  /\ roots = <<root>>
  /\ Fresh

\* The runs on the source texts about imports.
AliasInit ==
  /\ engine \in {"dora", "analyzer", "poogle", "second_dora"}
  /\ fs \in [FileNames -> AliasSourceIds \cup {Missing}]
  /\ root = "a.py"
  /\ engine \in {"dora", "analyzer"} => fs[root] # Missing
  /\ target \in Patterns
  /\ engine = "poogle" => target # PyNone
  /\ given = NoNode
  /\ roots = <<root>>
  /\ Fresh

\* A step of a traversal: of dora or of analyze_file.
Traversal ==
  \/ DoraStart
  \/ DoraImportStmt
  \/ DoraImportFrom
  \/ DoraOtherStmt
  \/ DoraReturn
  \/ AnalyzerStart
  \/ AnalyzerLocation
  \/ AnalyzerReturn

Next ==
  \/ Traversal
  \/ DoraPrint
  \/ PoogleMain
  \/ PoogleFile
  \/ PoogleExit
  \/ SecondDoraMain
  \/ SecondDoraFile
  \/ SecondDoraExit

Spec == Init /\ [][Next]_vars

AliasSpec == AliasInit /\ [][Next]_vars

\* ------------------------------------------------- type_matches on its own
\* The identifiers of the annotations given to type_matches.
MatcherIds == {"int", "str", "Dict"}

\* The targets type_matches is asked for.
MatcherTargets == {"int", "str", "Dict", "None"}

\* The annotations of one node: a name, or the constant None.
Leaves == {Name(id, 1, 0) : id \in MatcherIds} \cup {Constant("None", "NoneType", 1, 0)}

\* Grown[n].t: the annotations of exactly n nodes built from Name, Constant,
\* Attribute, Subscript, Tuple, List, BinOp and Call; Grown[n].f: the lists
\* of annotations of n nodes in all.
Grown[n \in Nat] ==
  IF n = 0 THEN [t |-> {}, f |-> {<<>>}]
  ELSE
    LET t ==
          IF n = 1 THEN Leaves
          ELSE {Attribute(v, a, 1, 0) : v \in Grown[n - 1].t, a \in MatcherIds}
               \cup UNION {{Subscript(v, sl, 1, 0) : v \in Grown[k].t, sl \in Grown[n - 1 - k].t}
                             : k \in 1..(n - 2)}
               \cup {TupleN(e, 1, 0) : e \in Grown[n - 1].f}
               \cup {ListN(e, 1, 0) : e \in Grown[n - 1].f}
               \cup UNION {{BinOp(l, op, r, 1, 0) :
                               l \in Grown[k].t, op \in {"BitOr", "Add"},
                               r \in Grown[n - 1 - k].t}
                             : k \in 1..(n - 2)}
               \cup UNION {{Call(fn, args, 1, 0) : fn \in Grown[k].t, args \in Grown[n - 1 - k].f}
                             : k \in 1..(n - 1)}
        f == UNION {{<<x>> \o rest : x \in (IF k = n THEN t ELSE Grown[k].t),
                                     rest \in Grown[n - k].f}
                     : k \in 1..n}
    IN [t |-> t, f |-> f]

\* The annotation `Dict[str, int]`.
DictStrInt ==
  Subscript(Name("Dict", 1, 0), TupleN(<<Name("str", 1, 5), Name("int", 1, 10)>>, 1, 5), 1, 0)

\* The annotation `int | None`.
IntOrNone == BinOp(Name("int", 1, 0), "BitOr", Constant("None", "NoneType", 1, 0), 1, 0)

\* The annotations type_matches is called on.
Annotations == UNION {Grown[n].t : n \in 1..MaxNodes} \cup {DictStrInt, IntOrNone}

\* A call of type_matches is about to be made on an annotation and a target.
MatcherInit ==
  /\ engine = "matcher"
  /\ fs = [f \in FileNames |-> Missing]
  /\ root = "a.py"
  /\ target \in MatcherTargets
  /\ given \in Annotations
  /\ roots = <<root>>
  /\ Fresh

\* The call type_matches(annotation, target_type) returns.
Match ==
  /\ engine = "matcher" /\ status = "init"
  /\ matched' = type_matches(given, target)
  /\ status' = "returned"
  /\ UNCHANGED <<engine, fs, root, target, exc, stack, ret, visited_files,
                 import_map, analyzed_files, imports, locations, parsed, indexed,
                 search_vars, given, kind, caller_vars>>

MatcherNext == Match

MatcherSpec == MatcherInit /\ [][MatcherNext]_vars

\* ------------------------------------------------- get_expr_type on its own
\* A node of a class the visitors of the programs do not look into.
Node(k, line, col) == [k |-> k, lineno |-> line, col_offset |-> col]

\* The classes of ast get_expr_type names that have no constructor above,
\* and three expression classes it does not name.
OtherClasses ==
  {"UnaryOp", "Dict", "Compare", "BoolOp", "IfExp", "Starred", "Set", "JoinedStr"}

\* The nodes get_expr_type is called on: expressions of every class it
\* names, constants of several Python types, and nodes of other classes.
Classified ==
  Annotations
  \cup {Constant("1", "int", 1, 0), Constant("x", "str", 1, 0),
        Constant("Ellipsis", "ellipsis", 1, 0), Constant("True", "bool", 1, 0)}
  \cup {Lambda(1, 0), Expr(Name("x", 1, 0), 1, 0), Arg(NoNode, 0),
        ImportFrom("b", "Widget", PyNone, 1)}
  \cup {Node(k, 1, 0) : k \in OtherClasses}

\* A call of get_expr_type is about to be made on a node.
ClassifierInit ==
  /\ engine = "classifier"
  /\ fs = [f \in FileNames |-> Missing]
  /\ root = "a.py"
  /\ target = PyNone
  /\ given \in Classified
  /\ roots = <<root>>
  /\ Fresh

\* The call get_expr_type(node) returns.
Classify ==
  /\ engine = "classifier" /\ status = "init"
  /\ kind' = get_expr_type(given)
  /\ status' = "returned"
  /\ UNCHANGED <<engine, fs, root, target, exc, stack, ret, visited_files,
                 import_map, analyzed_files, imports, locations, parsed, indexed,
                 search_vars, given, matched, caller_vars>>

ClassifierNext == Classify

ClassifierSpec == ClassifierInit /\ [][ClassifierNext]_vars

\* ------------------------------------------- several roots, one after another
\* dora called without its two optional arguments, the parameters keeping
\* what an earlier call made of their defaults.
DoraDefaultsKept(visited, map) == [visited_files |-> visited, import_map |-> map]

\* dora lines 31-34: called without visited_files and import_map, dora makes
\* a new set and a new dict: the defaults are None, not a set and a dict
\* made once.
DoraDefaults(visited, map) == [visited_files |-> {}, import_map |-> EmptyDict]

\* TypeAnalyzer.__init__ and ImportTracker.__init__: the attributes belong to
\* the instance and start empty.
TypeAnalyzerInit == [analyzed_files |-> {}, imports |-> EmptyDict, locations |-> <<>>]

\* A caller searches a root, then another, then the first one again, each
\* with dora(root, target) or with TypeAnalyzer().analyze_file(root, target).
SeqInit ==
  /\ engine \in {"dora", "analyzer"}
  /\ fs \in [FileNames -> SourceIds \cup {Missing}]
  /\ roots \in {<<x, y, x>> : x, y \in {f \in FileNames : fs[f] # Missing}}
  /\ root = roots[1]
  /\ target \in Patterns
  /\ given = NoNode
  /\ Fresh

\* The caller keeps the list returned for a root and makes the call for the
\* next one.
NextRoot ==
  /\ engine \in {"dora", "analyzer"} /\ status = "returned"
  /\ Len(earlier) + 1 < Len(roots)
  /\ earlier' = Append(earlier, [file |-> root, matches |-> ret])
  /\ root' = roots[Len(earlier) + 2]
  /\ status' = "init" /\ ret' = <<>>
  /\ IF engine = "dora"
     THEN /\ \E d \in {DoraDefaults(visited_files, import_map)} :
               visited_files' = d.visited_files /\ import_map' = d.import_map
          /\ UNCHANGED <<analyzed_files, imports, locations>>
     ELSE /\ analyzed_files' = TypeAnalyzerInit.analyzed_files
          /\ imports' = TypeAnalyzerInit.imports
          /\ locations' = TypeAnalyzerInit.locations
          /\ UNCHANGED <<visited_files, import_map>>
  /\ parsed' = [f \in FileNames |-> 0]
  /\ indexed' = [f \in FileNames |-> 0]
  /\ UNCHANGED <<engine, fs, target, exc, stack, search_vars, matcher_vars, roots>>

SeqNext ==
  \/ Traversal
  \/ NextRoot

SeqSpec == SeqInit /\ [][SeqNext]_vars

\* The run is over: main has the list, or an exception left the program.
Finished == status \in {"returned", "raised"}

\* dora and analyze_file run in one thread, which takes every step of theirs
\* that is possible: a traversal does not stop half way.
FairSpec == Spec /\ WF_vars(Traversal)

\* -------------------------------------------------------------- properties
\* The files a traversal has marked visited.
Visited == visited_files \cup analyzed_files

\* a.py and b.py import each other.
ImportCycle == fs["a.py"] = "use_b" /\ fs["b.py"] = "use_a"

\* C1: in one traversal every file is parsed and indexed at most once, and in
\* an import cycle a.py -> b.py -> a.py each of the two exactly once.
C1_ParsedIndexedAtMostOnce ==
  /\ \A f \in FileNames : parsed[f] <= 1 /\ indexed[f] <= 1
  /\ (ImportCycle /\ status = "returned" /\ {"a.py", "b.py"} \subseteq Visited)
       => \A f \in {"a.py", "b.py"} : parsed[f] = 1 /\ indexed[f] = 1

\* What holds of C1 in both programs: a file is marked visited before it is
\* read, so it is indexed at most once whatever the number of import chains
\* to it; dora parses it once, analyze_file twice (lines 184 and 231).
VisitedOnce ==
  \A f \in FileNames :
    /\ indexed[f] <= 1
    /\ parsed[f] <= (IF engine = "analyzer" THEN 2 ELSE 1)
    /\ (indexed[f] = 1 => f \in Visited)

\* The files of the calls in progress are distinct and all marked visited.
StackDistinct ==
  /\ \A i, j \in 1..Len(stack) : i # j => stack[i].filename # stack[j].filename
  /\ \A i \in 1..Len(stack) : stack[i].filename \in Visited

\* C2: whatever the files and the imports among them, mutual and circular
\* ones included, a traversal started at the root eventually returns.
C2_TraversalReturns == <>(engine \in {"dora", "analyzer"} => status = "returned")

\* What holds of C2: every traversal ends, by a return or by an exception
\* that leaves the program, because no file is ever in progress twice; the
\* depth of the calls stays within the number of files and never exhausts
\* the interpreter's stack.
TraversalEnds ==
  /\ [](StackDistinct /\ exc # "RecursionError")
  /\ <>(engine \in {"dora", "analyzer"} => Finished)

\* C3: the returned list is the root's own passing occurrences followed by
\* the contributions of the traversed files; no occurrence of an imported file
\* comes before an own occurrence.
C3_OwnOccurrencesFirst ==
  /\ (engine = "analyzer" /\ status = "returned") =>
       \A i, j \in 1..Len(ret) : (i < j /\ ret[j].file = root) => ret[i].file = root
  /\ (engine = "dora" /\ status = "running") =>
       \A n \in 1..Len(stack) :
         SubSeq(stack[n].results, 1, Len(stack[n].own)) = stack[n].own

\* C4: a.py = `from b import Widget` + `def f(x: Widget) -> None: ...`, b.py =
\* `class Widget: ...`; the search of a.py for Widget returns exactly two
\* occurrences: the parameter annotation of a.py with origin b.py, then the
\* class definition in b.py.
C4_EndToEnd ==
  (/\ engine \in {"dora", "analyzer"}
   /\ fs["a.py"] = "ex_a" /\ fs["b.py"] = "ex_b" /\ root = "a.py" /\ target = "Widget"
   /\ Finished)
    => /\ status = "returned"
       /\ Len(ret) = 2
       /\ engine = "analyzer" =>
            /\ ret[1].file = "a.py" /\ ret[1].type_name = "Widget"
            /\ ret[1].source_file = "b.py"
            /\ ret[2].file = "b.py" /\ ret[2].type_name = "Widget" /\ ret[2].line = 1
       /\ engine = "dora" =>
            /\ ret[1][1] = 2 /\ ret[1][3] = "Widget" /\ ret[1][5] = "b.py"
            /\ ret[2][1] = 1 /\ ret[2][3] = "Widget" /\ ret[2][5] = "b.py"

\* The modules the statements of a file import.
ImportedModules(path) ==
  LET body == Parse(path).body
  IN {IF body[i].k = "ImportFrom" /\ body[i].module # PyNone THEN body[i].module
      ELSE body[i].name : i \in {n \in 1..Len(body) : body[n].k \in {"Import", "ImportFrom"}}}

\* A traversal is run on a root that imports a local module whose file is not
\* there; every file of the directory parses and none has an annotation the
\* visitor of poogle3 cannot read.
RootImportsMissing ==
  /\ engine \in {"dora", "analyzer"}
  /\ \A f \in FileNames : fs[f] \notin {"bad", "anns"}
  /\ \E m \in ImportedModules(root) \ StdlibModules : ~Exists(m \o ".py")

\* C5: a file that imports a local module whose file does not exist is
\* searched without an exception and without a visit of the missing file.
C5_MissingImportTolerated ==
  (Finished /\ RootImportsMissing)
    => /\ status = "returned"
       /\ \A f \in Visited : Exists(f)

\* The file was reached by the search: a traversal marked it visited, or
\* main gave it to search_file.
Reached(f) ==
  \/ f \in Visited
  \/ engine \in {"poogle", "second_dora"} /\ \E i \in 1..Len(ret) : ret[i].file = abspath(f)

\* C6: a file that fails to parse, root or imported, ends only its own
\* search: no exception leaves the program, and the files main searches
\* besides it still get their result.
C6_ParseFailureIsLocal ==
  \A f \in FileNames :
    (Finished /\ fs[f] = "bad" /\ Reached(f))
      => /\ status = "returned"
         /\ engine \in {"poogle", "second_dora"} => Len(ret) = Len(py_files)

\* What holds of C6: search_file of second_dora catches the failure, writes
\* one line about the file to sys.stderr and returns no match for it.
SearchFileCatchesParseFailure ==
  (engine = "second_dora" /\ status = "returned") =>
    /\ Len(ret) = Len(py_files)
    /\ \A i \in 1..Len(ret) :
         fs[FsKey(ret[i].file)] = "bad" =>
           /\ ret[i].matches = <<>>
           /\ \E n \in 1..Len(stderr) : StrContains(ret[i].file, stderr[n])

\* The name a one-node annotation is written with.
Written(n) ==
  IF n.k = "Name" THEN n.id ELSE IF n.k = "Constant" THEN n.value ELSE PyNone

\* C7: a union written with `|` matches a target that is either of its
\* sides; `int | None` matches `int` and matches `None`.
C7_UnionMatchesEitherSide ==
  (/\ engine = "matcher" /\ status = "returned"
   /\ given.k = "BinOp" /\ given.op = "BitOr"
   /\ target \in {Written(given.left), Written(given.right)})
    => matched = TRUE

\* The names the rule of the specification lets an annotation match: a Name
\* its identifier, an Attribute its trailing member, a Subscript what its base
\* or its argument matches, a Tuple or List what any element matches, a union
\* what either side matches, a Call what the callee or any argument matches,
\* every other node nothing.
MatchNames[n \in Any] ==
  CASE n.k = "Name" -> {n.id}
    [] n.k = "Attribute" -> {n.attr}
    [] n.k = "Subscript" -> MatchNames[n.value] \cup MatchNames[n.slice]
    [] n.k \in {"Tuple", "List"} -> UNION {MatchNames[n.elts[i]] : i \in 1..Len(n.elts)}
    [] n.k = "BinOp" /\ n.op = "BitOr" -> MatchNames[n.left] \cup MatchNames[n.right]
    [] n.k = "Call" ->
         MatchNames[n.func] \cup UNION {MatchNames[n.args[i]] : i \in 1..Len(n.args)}
    [] OTHER -> {}

\* C8: type_matches returns true exactly when the recursive rule lets the
\* annotation match the target; `Dict[str, int]` matches `int` and `Dict`.
C8_MatcherFollowsRule ==
  (engine = "matcher" /\ status = "returned") =>
    /\ matched <=> target \in MatchNames[given]
    /\ (given = DictStrInt /\ target \in {"int", "Dict"}) => matched = TRUE

\* C8 witness: type_matches has returned true for `Dict[str, int]` and `int`,
\* a match through the argument of the Subscript.
C8_Witness ==
  /\ engine = "matcher" /\ status = "returned"
  /\ given = DictStrInt /\ target = "int" /\ matched = TRUE

\* The occurrences a program has returned, each with the file it is in, for
\* the programs that return them per file.
SearchOccurrences ==
  UNION {{<<ret[i].file, ret[i].matches[j]>> : j \in 1..Len(ret[i].matches)}
           : i \in 1..Len(ret)}

\* C9: with a target, every occurrence returned satisfies the filter for it:
\* poogle3 keeps a name that contains it, poogle2 and second_dora a name equal
\* to it, poogle an annotation the rule lets match it.  A directory of files
\* holding only `def f(x: str) -> str: ...` searched for `int` gives nothing.
C9_OnlyPassingOccurrences ==
  target # PyNone =>
    /\ engine = "analyzer" =>
         \A i \in 1..Len(locations) : StrContains(target, locations[i].type_name)
    /\ (engine = "dora" /\ status = "returned") =>
         \A i \in 1..Len(ret) : ret[i][3] = target
    /\ engine = "second_dora" =>
         \A o \in SearchOccurrences : o[2].type_str = target
    /\ engine = "poogle" =>
         \A i \in 1..Len(ret) :
           ret[i].matches # <<>> =>
             LET annotations == extract_annotations(Parse(ret[i].file))
             IN \A j \in 1..Len(ret[i].matches) :
                  \E n \in 1..Len(annotations) :
                    /\ annotations[n][2] = ret[i].matches[j][1]
                    /\ annotations[n][3] = ret[i].matches[j][2]
                    /\ target \in MatchNames[annotations[n][1]]
    /\ (target = "int" /\ \A f \in FileNames : fs[f] \in {"strs", Missing}) =>
         /\ engine = "analyzer" => locations = <<>>
         /\ engine = "dora" /\ status = "returned" => ret = <<>>
         /\ engine \in {"poogle", "second_dora"} => SearchOccurrences = {}

\* C9 witness: second_dora has searched a.py, which holds only
\* `def f(x: str) -> str: ...`, for `int` and returned no match for it.
C9_Witness ==
  /\ engine = "second_dora" /\ status = "returned" /\ target = "int"
  /\ fs["a.py"] = "strs"
  /\ Len(ret) >= 1 /\ ret[1].file = abspath("a.py") /\ ret[1].matches = <<>>

\* What identifies an occurrence in the list a program returns: line, column,
\* name and kind, with the file where the program records it.
OccKey(o) ==
  CASE engine = "analyzer" -> <<o.file, o.line, o.column, o.type_name, o.expr_kind>>
    [] engine = "second_dora" -> <<o.line_no, o.col_offset, o.type_str, o.expr_type>>
    [] OTHER -> o

\* The lists of occurrences returned: one for a traversal, one per file for
\* poogle and second_dora.
ReturnedLists ==
  IF engine \in {"poogle", "second_dora"}
  THEN {ret[i].matches : i \in 1..Len(ret)}
  ELSE {ret}

\* C10: no returned list holds two occurrences with the same file, line,
\* column, symbol name and expression kind.
C10_NoDuplicates ==
  status = "returned" =>
    \A l \in ReturnedLists :
      \A i, j \in 1..Len(l) : i # j => OccKey(l[i]) # OccKey(l[j])

\* The result r of dora is an occurrence TypeFinder finds in file f.
FoundIn(f, r) ==
  /\ Parse(f).k = "Module"
  /\ LET found == TypeFinder_visit(Parse(f), target)
     IN \E n \in 1..Len(found) : found[n] = <<r[1], r[2], r[3], r[4]>>

\* C11: every block printed for an occurrence names the file the occurrence
\* was found in: its header `path:line:column` and its source line are those
\* of a traversed file that holds the occurrence there, also when the file is
\* an imported one.
C11_OccurrenceNamesItsFile ==
  /\ engine = "dora" =>
       \A n \in 1..Len(ret) :
         5 * n <= Len(stdout) =>
           \E f \in visited_files :
             /\ FoundIn(f, ret[n])
             /\ stdout[5 * n - 4]
                  = f \o ":" \o ToString(ret[n][1]) \o ":" \o ToString(ret[n][2])
             /\ stdout[5 * n - 1] = RStrip[SourceLines(f)[ret[n][1]]]
  /\ (engine = "analyzer" /\ status = "returned") =>
       \A n \in 1..Len(ret) :
         /\ ret[n].file \in analyzed_files
         /\ ret[n].source_line = Strip(SourceLines(ret[n].file)[ret[n].line])

\* C12: a root searched after other roots, with no traversal state passed,
\* gets the result it gets when searched first: every call starts from an
\* empty visited set, alias map and list of occurrences, and the third search
\* of the sequence returns what the first one, of the same root, returned.
C12_RootsIndependent ==
  /\ status = "init" =>
       /\ visited_files = {} /\ import_map = EmptyDict
       /\ analyzed_files = {} /\ imports = EmptyDict /\ locations = <<>>
  /\ (Len(earlier) = 2 /\ status = "returned") => ret = earlier[1].matches

\* C12 witness: dora has searched b.py, then a.py, which imports b and took
\* the traversal into b.py, then b.py again, and returned its occurrences.
C12_Witness ==
  /\ engine = "dora" /\ status = "returned" /\ Len(earlier) = 2
  /\ roots = <<"b.py", "a.py", "b.py">>
  /\ fs["a.py"] = "use_b" /\ fs["b.py"] = "strs" /\ target = PyNone
  /\ Len(earlier[2].matches) > Len(ret) /\ ret # <<>>

\* The alias map, given as name -> module, binds `import a.b.c` to the first
\* segment and `import a.b.c as y` to the alias, each to the module a.b.c.
BindsPlainImports(map) ==
  /\ "y" \in DOMAIN map /\ map["y"] = "a.b.c"
  /\ "a" \in DOMAIN map /\ map["a"] = "a.b.c"

\* C13: a plain `import a.b.c` binds the first path segment `a`, and with
\* `as y` the alias `y`, to the qualified module name, in the alias map of
\* each program that keeps one.
C13_PlainImportBinding ==
  (status = "returned" /\ fs[root] = "imps") =>
    /\ engine = "dora" => BindsPlainImports(import_map)
    /\ engine = "analyzer" =>
         BindsPlainImports([k \in DOMAIN imports |->
                              StrReplace(SubSeq(imports[k], 1, Len(imports[k]) - 3), Sep, ".")])
    /\ engine = "second_dora" =>
         LET aliases == extract_imports(Parse(root), abspath(root))
         IN BindsPlainImports([k \in DOMAIN aliases |-> aliases[k][1]])

\* The names the file `imps` binds by its imports of os, a module of the
\* allow-list of poogle3.
StdlibBound == {"os", "x", "path"}

\* C14: an import of a module of the allow-list, written `import m`,
\* `import m as x` or `from m import n`, gives no entry of the alias map, no
\* occurrence an origin, and no file a traversal.
C14_StdlibNotFollowed ==
  engine = "analyzer" =>
    /\ \A k \in DOMAIN imports : k \notin StdlibBound /\ imports[k] # "os.py"
    /\ \A n \in 1..Len(locations) :
         locations[n].type_name \in StdlibBound => locations[n].source_file = PyNone
    /\ "os.py" \notin analyzed_files

\* C14 witness: analyze_file has returned for a root that imports os in the
\* three ways and uses the names, with the occurrences of `os` and `path`.
C14_Witness ==
  /\ engine = "analyzer" /\ status = "returned" /\ fs[root] = "imps"
  /\ \E n \in 1..Len(ret) : ret[n].type_name = "os" /\ ret[n].source_file = PyNone
  /\ \E n \in 1..Len(ret) : ret[n].type_name = "path" /\ ret[n].source_file = PyNone

\* dora is at an import statement that makes it call dora on a file of the
\* visited set.
DoraCallsVisited ==
  /\ engine = "dora" /\ status = "running"
  /\ Top.i <= Len(TopBody)
  /\ TopBody[Top.i].k = "ImportFrom"
  /\ LET full_imported_name == FullImportedName(TopBody[Top.i])
         imported_file == resolve_import(Top.filename, full_imported_name)
     IN /\ target = PyNone \/ full_imported_name = target
        /\ imported_file # PyNone
        /\ imported_file \in visited_files

\* analyze_file is at a passing location whose source file is in the set of
\* analyzed files, on which it calls analyze_file.
AnalyzerCallsAnalyzed ==
  /\ engine = "analyzer" /\ status = "running"
  /\ Top.i <= Len(Top.vlocs)
  /\ LET location == WithSourceFile(Top.vlocs[Top.i], imports)
     IN /\ PatternPasses(target, location.type_name)
        /\ Truthy(location.source_file)
        /\ location.source_file \in analyzed_files

\* C15: a call of the traversal on a file of the visited set contributes
\* nothing and changes nothing: the visited set and the occurrences
\* accumulated stay as they are, no file is read, and the caller goes on
\* with its next statement or location.
C15_VisitedCallIsNoOp ==
  [][/\ DoraCallsVisited =>
          /\ visited_files' = visited_files
          /\ parsed' = parsed /\ indexed' = indexed
          /\ Len(stack') = Len(stack)
          /\ stack'[Len(stack)].results = Top.results
          /\ stack'[Len(stack)].i = Top.i + 1
     /\ AnalyzerCallsAnalyzed =>
          /\ analyzed_files' = analyzed_files
          /\ parsed' = parsed /\ indexed' = indexed
          /\ locations' = Append(locations, WithSourceFile(Top.vlocs[Top.i], imports))
          /\ Len(stack') = Len(stack)
          /\ stack'[Len(stack)].i = Top.i + 1]_vars

\* C15 witness: dora has returned for a.py and b.py that import each other,
\* with no pattern: b.py made it call dora on a.py, which was visited.
C15_Witness ==
  /\ engine = "dora" /\ status = "returned" /\ target = PyNone
  /\ ImportCycle
  /\ visited_files = {"a.py", "b.py"}
  /\ indexed["a.py"] = 1 /\ indexed["b.py"] = 1

\* The import statements at the top level of a file that parses.
ImportNodes(f) ==
  IF Parse(f).k # "Module" THEN {}
  ELSE LET body == Parse(f).body
       IN {body[i] : i \in {n \in 1..Len(body) : body[n].k \in {"Import", "ImportFrom"}}}

\* The name an import statement binds in its file.
BoundBy(node) == AsnameOr(node.asname, node.name)

\* The names a file imports.
ImportedNames(f) == {BoundBy(node) : node \in ImportNodes(f)}

\* The names a file imports from a module that is named and is not of the
\* allow-list of standard modules.
LocalNames(f) ==
  {BoundBy(node) : node \in {n \in ImportNodes(f) :
                               /\ n.k = "ImportFrom" /\ n.module # PyNone
                               /\ n.module \notin BUILTIN_MODULES}}

\* C16: a file other than the root is traversed only for an occurrence that
\* passed the filter and whose origin is that file: an import whose name has
\* no passing occurrence in the importing file takes the traversal nowhere.
C16_TraversalNeedsOccurrence ==
  /\ engine = "dora" =>
       \A f \in visited_files \ {root} :
         \E g \in visited_files :
           \E node \in {n \in ImportNodes(g) : n.k = "ImportFrom"} :
             /\ resolve_import(g, FullImportedName(node)) = f
             /\ LET found == TypeFinder_visit(Parse(g), target)
                IN \E n \in 1..Len(found) : found[n][3] = BoundBy(node)
  /\ engine = "analyzer" =>
       \A f \in analyzed_files \ {root} :
         \E n \in 1..Len(locations) : locations[n].source_file = f

\* C17: the alias map of a file is there before the file's expressions are
\* resolved: every occurrence, in the root too, of a name the file imports
\* from a local module has the origin the import gives it.
C17_OwnImportsResolved ==
  /\ (engine = "dora" /\ status = "returned" /\ Parse(root).k = "Module") =>
       \A n \in 1..Len(TypeFinder_visit(Parse(root), target)) :
         ret[n][3] \in LocalNames(root) => ret[n][5] # root
  /\ engine = "analyzer" =>
       \A n \in 1..Len(locations) :
         (locations[n].file = root /\ locations[n].type_name \in LocalNames(root))
           => locations[n].source_file # PyNone
  /\ engine = "second_dora" =>
       \A o \in SearchOccurrences :
         (o[2].expr_type = "NameExpr" /\ o[2].type_str \in LocalNames(o[1]))
           => o[2].import_source # PyNone

\* C18: the alias map is the file's own: an occurrence in a file of a name
\* that file does not import has no origin, whatever a parent or a file
\* traversed before has imported.
C18_AliasMapPerFile ==
  /\ engine = "dora" =>
       \A n \in 1..Len(ret) :
         \E f \in visited_files :
           /\ FoundIn(f, ret[n])
           /\ ret[n][3] \in ImportedNames(f) \/ ret[n][5] = f
  /\ engine = "analyzer" =>
       \A n \in 1..Len(locations) :
         locations[n].type_name \notin ImportedNames(locations[n].file)
           => locations[n].source_file = PyNone

\* The tags of the closed set, each as it is written and with the suffix
\* the program gives its tags.
ExprKindTags ==
  LET tags == {"Name", "Call", "Attribute", "Subscript", "Constant", "BinOp", "UnaryOp",
               "List", "Tuple", "Dict", "Lambda", "Compare", "BoolOp", "IfExp", "Unknown"}
  IN tags \cup {t \o "Expr" : t \in tags}

\* The classes of node get_expr_type recognises.
RecognisedClasses ==
  {"Name", "Call", "Attribute", "Subscript", "Constant", "BinOp", "UnaryOp",
   "List", "Tuple", "Dict", "Lambda", "Compare", "BoolOp", "IfExp"}

\* C19: get_expr_type returns for every node a tag of the closed set, the
\* tag Unknown for a node of a class outside the recognised ones.
C19_ExprKindClosed ==
  (engine = "classifier" /\ status = "returned") =>
    /\ kind \in ExprKindTags
    /\ given.k \notin RecognisedClasses => kind \in {"Unknown", "UnknownExpr"}
====
